---- MODULE Spec2Model ----
(***************************************************************************)
(* A model of sqlrest's database layer (src/sqlrest/database.py): the      *)
(* field-expression parser str2col, the filter compiler where_clause, the  *)
(* query helpers, row coercion and the table operations of Database.       *)
(*                                                                         *)
(* Encodings.  A field expression is a sequence of one-character strings.  *)
(* A column is a record [name, type]; a schema is the sequence of the      *)
(* table's columns in schema order.  Stored values are NULL or naturals:   *)
(* a datetime is a tick count with two ticks per day, a date is a day      *)
(* number, a string is a code whose odd values are the upper-case         *)
(* variants of the even value below them.                                  *)
(***************************************************************************)
EXTENDS Integers, Sequences, FiniteSets, TLC

\* ------------------------------------------------------------------ bounds
\* Largest stored / filter value.
MaxVal == 2
\* Longest filter list.
MaxList == 3
\* Most rows the table of the concurrent specification holds.
MaxRows == 2
\* Largest page index and page size of a paged select.
MaxPage == 3
MaxPageSize == 3
\* page_size=100
DefaultPageSize == 100
\* Deepest function nesting of a generated field expression.
MaxDepth == 2

\* ------------------------------------------------------------ characters
\* SQL NULL, below every stored value.
NULL == 0 - 1

\* ord() of the characters used as column names.
Ord(c) ==
  CASE c = "a" -> 97  [] c = "b" -> 98  [] c = "d" -> 100 [] c = "h" -> 104
    [] c = "i" -> 105 [] c = "j" -> 106 [] c = "k" -> 107 [] c = "m" -> 109
    [] c = "n" -> 110 [] c = "s" -> 115 [] c = "t" -> 116 [] c = "x" -> 120
    [] c = "y" -> 121 [] c = "X" -> 88  [] c = "q" -> 113

\* The characters the regular expression's \w class accepts, among those used.
WordChars ==
  {"a", "b", "c", "d", "e", "h", "i", "j", "k", "l", "m", "n", "o", "q", "r",
   "s", "t", "u", "w", "x", "y", "A", "D", "E", "T", "X"}

\* str.lower() on one character.
LowerChar(c) ==
  CASE c = "A" -> "a" [] c = "D" -> "d" [] c = "E" -> "e" [] c = "T" -> "t"
    [] c = "X" -> "x" [] OTHER -> c

\* str.lower()
Lower(name) == [i \in 1..Len(name) |-> LowerChar(name[i])]

Reverse(q) == [i \in 1..Len(q) |-> q[Len(q) + 1 - i]]

\* Function names as they are written in field expressions.
fDate  == <<"d", "a", "t", "e">>
fDATE  == <<"D", "A", "T", "E">>
fCount == <<"c", "o", "u", "n", "t">>
fMax   == <<"m", "a", "x">>
fLower == <<"l", "o", "w", "e", "r">>

\* --------------------------------------------------------------- schemas
Col(n, t) == [name |-> n, type |-> t]

\* The reflected tables the model runs against, one per behaviour.
Schemas ==
  { << Col("x", "integer"),    Col("y", "string")   >>,
    << Col("a", "string"),     Col("b", "date")     >>,
    << Col("t", "datetime"),   Col("n", "float")    >>,
    << Col("k", "biginteger"), Col("i", "interval") >>,
    << Col("j", "smallinteger"), Col("m", "numeric") >>,
    << Col("h", "time"),       Col("s", "boolean")  >> }

ColNames(schema) == { schema[i].name : i \in 1..Len(schema) }

ColOf(schema, n) == CHOOSE c \in { schema[i] : i \in 1..Len(schema) } : c.name = n

\* ------------------------------------------------------------- str2col
\* td = { col.name: col for col in table.columns }; td.values() lists the
\* columns in the order of CPython 2's hash table, not in schema order.  For
\* a one-character key the string hash is ((ord << 7) * 1000003) ^ ord ^ 1,
\* so in a table of 8 slots the key lands in slot (ord ^ 1) & 7.
DictSlot(n) ==
  LET r == Ord(n) % 8 IN IF r % 2 = 0 THEN r + 1 ELSE r - 1

\* td.values()[0]
DictFirst(schema) ==
  CHOOSE c \in { schema[i] : i \in 1..Len(schema) } :
    \A i \in 1..Len(schema) : DictSlot(c.name) <= DictSlot(schema[i].name)

\* getcolumn(k): the column, or a KeyError.
getcolumn(k, schema) ==
  IF k = <<"*">>
    THEN [ok |-> TRUE, col |-> DictFirst(schema)]
    ELSE IF Len(k) = 1 /\ k[1] \in ColNames(schema)
      THEN [ok |-> TRUE, col |-> ColOf(schema, k[1])]
      ELSE [ok |-> FALSE, err |-> "KeyError"]

\* pattern = "^\s*(\w+)\((.+?)\)\s*$": the places of a match in s.
\* start: the first character after the leading whitespace.
PatStart(s) ==
  IF \E i \in 1..Len(s) : s[i] # " "
    THEN CHOOSE i \in 1..Len(s) : s[i] # " " /\ \A j \in 1..(i - 1) : s[j] = " "
    ELSE Len(s) + 1

\* paren: the first character after the identifier that starts at PatStart.
PatParen(s) ==
  LET b == PatStart(s) IN
  IF \E i \in b..Len(s) : s[i] \notin WordChars
    THEN CHOOSE i \in b..Len(s) :
           s[i] \notin WordChars /\ \A j \in b..(i - 1) : s[j] \in WordChars
    ELSE Len(s) + 1

\* close: the last character before the trailing whitespace.
PatClose(s) ==
  IF \E i \in 1..Len(s) : s[i] # " "
    THEN CHOOSE i \in 1..Len(s) :
           s[i] # " " /\ \A j \in (i + 1)..Len(s) : s[j] = " "
    ELSE 0

\* is_function(s): pattern.search(s) is not None
is_function(s) ==
  LET b == PatStart(s)
      p == PatParen(s)
      e == PatClose(s)
  IN /\ p <= Len(s)
     /\ p > b
     /\ s[p] = "("
     /\ s[e] = ")"
     /\ e > p + 1

\* function_split(s): (function name, insides)
function_split(s) ==
  << SubSeq(s, PatStart(s), PatParen(s) - 1),
     SubSeq(s, PatParen(s) + 1, PatClose(s) - 1) >>

\* The while loop of str2col: the peeled names (outermost first) and the rest.
RECURSIVE Peel(_, _)
Peel(field, queue) ==
  IF is_function(field)
    THEN Peel(function_split(field)[2], Append(queue, function_split(field)[1]))
    ELSE [queue |-> queue, field |-> field]

\* The result type sqlalchemy gives func.<name>(arg): count is Integer,
\* max/min/sum take the type of their argument, a function it does not know
\* has NullType.
FuncType(name, argtype) ==
  LET l == Lower(name) IN
  IF l = fCount THEN "integer"
  ELSE IF l = fMax THEN argtype
  ELSE "null"

\* The type of the expression apps[k](...apps[1](col)...).
RECURSIVE TypeOf(_, _)
TypeOf(apps, basetype) ==
  IF apps = <<>> THEN basetype
  ELSE FuncType(apps[Len(apps)], TypeOf(SubSeq(apps, 1, Len(apps) - 1), basetype))

\* A faulty variant: the functions applied in the order they were peeled.
ApplyOrderPeeled(queue) == queue

\* for f in reversed(queue): column = f(column)
ApplyOrder(queue) == Reverse(queue)

\* The end of str2col: the functions of the queue applied to the column c that
\* getcolumn returned, or its KeyError.
str2col_apply(queue, c) ==
  IF ~c.ok THEN [ok |-> FALSE, err |-> c.err]
  ELSE [ok   |-> TRUE,
        col  |-> c.col,
        apps |-> ApplyOrder(queue),
        type |-> TypeOf(ApplyOrder(queue), c.col.type)]

\* str2col after its while loop, p being what the loop left.
str2col_peeled(p, schema) == str2col_apply(p.queue, getcolumn(p.field, schema))

\* str2col(field, table): the expression, as the column and the functions in
\* the order they are applied to it (apps[1] first), or the KeyError.
str2col(field, schema) == str2col_peeled(Peel(field, <<>>), schema)

\* ----------------------------------------------------------- where_clause
ContinuousTypes ==
  {"datetime", "date", "time", "smallinteger", "integer", "biginteger", "float"}

\* functypes = {'date'}
functypes == {fDate}

\* A faulty variant: the allow-list consulted without the type.
iscontinuous_allowlist(c) ==
  c.apps # <<>> /\ Lower(c.apps[Len(c.apps)]) \in functypes

\* iscontinuous(c): the type of the expression is one of the listed types, or
\* the expression is a function call whose (outermost) name is in functypes.
iscontinuous(c) ==
  \/ c.type \in ContinuousTypes
  \/ (c.apps # <<>> /\ Lower(c.apps[Len(c.apps)]) \in functypes)

\* A filter value: a scalar or a list of scalars.
\* (isinstance(v, list), the values: the scalar alone, or the list's)
Scalar(v) == [list |-> FALSE, vs |-> <<v>>]
List(vs)  == [list |-> TRUE,  vs |-> vs]

\* c == v
eq_(c, v) == [kind |-> "eq", expr |-> c, vals |-> <<v>>]

\* s.or_(*[c == v_ for v_ in v]): one operand is returned as it is; with no
\* operand the clause is empty, and sqlalchemy renders an empty clause as
\* nothing and leaves it out of the conjunction around it.
or_(c, vs) ==
  IF Len(vs) = 0 THEN [kind |-> "empty", expr |-> c, vals |-> vs]
  ELSE IF Len(vs) = 1 THEN eq_(c, vs[1])
  ELSE [kind |-> "or", expr |-> c, vals |-> vs]

\* A faulty variant: the upper bound of a range taken inclusive.
range_inclusive(c, v) ==
  { [kind |-> "ge", expr |-> c, vals |-> <<v[1]>>],
    [kind |-> "le", expr |-> c, vals |-> <<v[2]>>] }

\* clauses.append(c >= v[0]); clauses.append(c < v[1])
range_(c, v) ==
  { [kind |-> "ge", expr |-> c, vals |-> <<v[1]>>],
    [kind |-> "lt", expr |-> c, vals |-> <<v[2]>>] }

\* The clauses of one (k, v) of the filters, c being str2col(k, table_).
entry_clauses(c, value) ==
  IF value.list
    THEN IF iscontinuous(c) /\ Len(value.vs) = 2
           THEN range_(c, value.vs)
           ELSE { or_(c, value.vs) }
    ELSE { eq_(c, value.vs[1]) }

\* where_clause(filters, table_): the conjunction, as the set of its clauses,
\* or the KeyError of a key that does not resolve.  filters is a function
\* from field expressions to filter values.
where_clause(filters, schema) ==
  IF \E k \in DOMAIN filters : ~str2col(k, schema).ok
    THEN [ok |-> FALSE, err |-> "KeyError"]
    ELSE [ok |-> TRUE,
          clauses |-> UNION { entry_clauses(str2col(k, schema), filters[k]) :
                              k \in DOMAIN filters }]

\* ------------------------------------------------------------ the engine
\* Aggregates, which the engine refuses in a WHERE clause.
Aggregates == {fCount, fMax}

\* A scalar SQL function on a value: date() keeps the day of a tick count,
\* lower() the lower-case variant of a string code; NULL stays NULL.
ApplyFunc(name, v) ==
  IF v = NULL THEN NULL
  ELSE IF Lower(name) = fDate THEN v \div 2
  ELSE IF Lower(name) = fLower THEN v - (v % 2)
  ELSE v

\* The value of an expression on a row.
RECURSIVE EvalApps(_, _)
EvalApps(apps, v) ==
  IF apps = <<>> THEN v
  ELSE ApplyFunc(apps[Len(apps)], EvalApps(SubSeq(apps, 1, Len(apps) - 1), v))

Eval(c, row) == EvalApps(c.apps, row[c.col.name])

HasAggregate(c) == \E i \in 1..Len(c.apps) : Lower(c.apps[i]) \in Aggregates

\* Whether a row satisfies a clause (a comparison with NULL is not true).
Sat(cl, row) ==
  LET x == Eval(cl.expr, row) IN
  CASE cl.kind = "empty" -> TRUE
    [] cl.kind = "eq" -> x # NULL /\ x = cl.vals[1]
    [] cl.kind = "ge" -> x # NULL /\ x >= cl.vals[1]
    [] cl.kind = "lt" -> x # NULL /\ x < cl.vals[1]
    [] cl.kind = "le" -> x # NULL /\ x <= cl.vals[1]
    [] cl.kind = "or" -> x # NULL /\ \E i \in 1..Len(cl.vals) : x = cl.vals[i]

Matches(clauses, row) == \A cl \in clauses : Sat(cl, row)

\* The rows of a sequence that satisfy P, in their order.
RECURSIVE FilterSeq(_, _)
FilterSeq(rows, clauses) ==
  IF rows = <<>> THEN <<>>
  ELSE IF Matches(clauses, rows[1])
    THEN <<rows[1]>> \o FilterSeq(Tail(rows), clauses)
    ELSE FilterSeq(Tail(rows), clauses)

\* query.filter(w) on the rows the query ranges over, w being the result of
\* where_clause.
filter(rows, w) ==
  IF ~w.ok THEN [ok |-> FALSE, err |-> w.err]
  ELSE IF \E cl \in w.clauses : HasAggregate(cl.expr)
    THEN [ok |-> FALSE, err |-> "EngineError"]
    ELSE [ok |-> TRUE, rows |-> FilterSeq(rows, w.clauses)]

\* with_filters(query, table_, filters)
with_filters(rows, schema, filters) == filter(rows, where_clause(filters, schema))

\* direction.lower()
LowerDir(d) == IF d = "DESCENDING" THEN "descending" ELSE d

\* ORDER BY, stable, NULL lowest: the place of row i among the rows, key
\* being the value of the order expression on each row.
Rank(key, desc, i) ==
  LET before(j) == IF desc THEN key[j] > key[i] ELSE key[j] < key[i]
  IN 1 + Cardinality({ j \in 1..Len(key) :
                         before(j) \/ (key[j] = key[i] /\ j < i) })

\* with_orderby(query, table_, orderby); orderby is None, [key] or
\* [key, direction].
with_orderby(res, schema, orderby) ==
  IF ~res.ok \/ orderby = <<>> THEN res
  ELSE
    LET direction == IF Len(orderby) = 2 THEN orderby[2] ELSE "ascending"
        desc == LowerDir(direction) = "descending"
        c == str2col(orderby[1], schema)
    IN IF ~c.ok THEN [ok |-> FALSE, err |-> c.err]
       ELSE LET key == [i \in 1..Len(res.rows) |-> Eval(c, res.rows[i])]
                rank == [i \in 1..Len(res.rows) |-> Rank(key, desc, i)]
            IN [ok |-> TRUE,
                rows |-> [p \in 1..Len(res.rows) |->
                            res.rows[CHOOSE i \in 1..Len(res.rows) : rank[i] = p]]]

Min(a, b) == IF a < b THEN a ELSE b

\* A faulty variant: the stop of the slice used as the row limit.
slice_limit_stop(rows, start, stop) ==
  SubSeq(rows, start + 1, Min(start + stop, Len(rows)))

\* Query.slice(start, stop): OFFSET start LIMIT stop - start.
slice(rows, start, stop) ==
  SubSeq(rows, start + 1, Min(start + (stop - start), Len(rows)))

\* with_pagination(query, table_, page, page_size)
with_pagination(res, page, page_size) ==
  IF ~res.ok THEN res
  ELSE [ok |-> TRUE,
        rows |-> slice(res.rows, page * page_size, (page + 1) * page_size)]

\* The projection of select: every column, or the labelled expressions.
Project(res, schema, columns) ==
  IF ~res.ok \/ columns = <<>> THEN res
  ELSE [ok |-> TRUE,
        rows |-> [i \in 1..Len(res.rows) |->
                    [c \in { columns[j] : j \in 1..Len(columns) } |->
                       Eval(str2col(c, schema), res.rows[i])]]]

\* Database.select, from the rows of the table to the result or the error;
\* columns = <<>> stands for None, orderby = <<>> for None.  The columns and
\* the order key apply scalar functions only.
select(rows, schema, columns, filters, page, page_size, orderby) ==
  IF \E j \in 1..Len(columns) : ~str2col(columns[j], schema).ok
    THEN [ok |-> FALSE, err |-> "KeyError"]
  ELSE Project(with_pagination(
                 with_orderby(with_filters(rows, schema, filters), schema, orderby),
                 page, page_size),
               schema, columns)

\* --------------------------------------------------------------- count
\* The query of Database.count: func.count(list(table_.columns)[0]) under the
\* filters, which counts the matching rows whose first column is not NULL.
count_query(rows, schema, filters) ==
  LET f == with_filters(rows, schema, filters) IN
  IF ~f.ok THEN f
  ELSE [ok |-> TRUE,
        n |-> Cardinality({ i \in 1..Len(f.rows) : f.rows[i][schema[1].name] # NULL })]

\* ------------------------------------------------------------- dict2row
\* An input value: a number, a text that parse_dt reads as the tick count v,
\* or a text that it cannot read.
Num(v)  == [kind |-> "num", v |-> v]
Text(v) == [kind |-> "text", v |-> v]
Junk    == [kind |-> "junk", v |-> 0]

\* parse_dt(v): the tick count, or no value for what dateutil cannot parse
\* (a text that is no date, a value that is no text).
parse_dt_ok(v) == v.kind = "text"

\* A faulty variant: a key that is no column is skipped.
coerce_ok_skipping(schema, row) ==
  \A k \in DOMAIN row :
    k \in ColNames(schema) =>
      (ColOf(schema, k).type \in {"date", "datetime"} => parse_dt_ok(row[k]))

\* Whether dict2row(table_, row) returns: every key is a column, and the
\* value of every date or datetime column parses.
coerce_ok(schema, row) ==
  \A k \in DOMAIN row :
    /\ k \in ColNames(schema)
    /\ ColOf(schema, k).type \in {"date", "datetime"} => parse_dt_ok(row[k])

\* The value dict2row stores under key k.
coerce_value(schema, k, v) ==
  IF ColOf(schema, k).type = "date" THEN v.v \div 2
  ELSE v.v

\* dict2row(table_, row), when it returns.
dict2row(schema, row) ==
  [k \in DOMAIN row \cap ColNames(schema) |-> coerce_value(schema, k, row[k])]

\* The row the engine stores for the values d: a column left out is NULL.
StoredRow(schema, d) ==
  [c \in ColNames(schema) |-> IF c \in DOMAIN d THEN d[c] ELSE NULL]

\* The rows of table_.insert().values(rows), or the error of the coercion.
insert_rows(schema, rows) ==
  IF \E i \in 1..Len(rows) : ~coerce_ok(schema, rows[i])
    THEN [ok |-> FALSE, err |-> "CoercionError", rows |-> <<>>]
    ELSE [ok |-> TRUE, err |-> "none",
          rows |-> [i \in 1..Len(rows) |-> StoredRow(schema, dict2row(schema, rows[i]))]]

\* table_.delete(where_clause(filters, table_)): the rows left and the number
\* deleted.
delete_rows(rows, schema, filters) ==
  LET w == where_clause(filters, schema) IN
  IF ~w.ok THEN [ok |-> FALSE, err |-> w.err, rows |-> rows, n |-> 0]
  ELSE
    LET keep == { i \in 1..Len(rows) : ~Matches(w.clauses, rows[i]) }
        left == [p \in 1..Cardinality(keep) |->
                   rows[CHOOSE i \in keep :
                          Cardinality({ j \in keep : j < i }) = p - 1]]
    IN [ok |-> TRUE, err |-> "none", rows |-> left, n |-> Len(rows) - Len(left)]

\* table_.update().where(where_clause(...)).values(dict2row(table_, values)):
\* the rows after it and the number updated.
update_rows(rows, schema, filters, values) ==
  LET w == where_clause(filters, schema) IN
  IF ~w.ok THEN [ok |-> FALSE, err |-> w.err, rows |-> rows, n |-> 0]
  ELSE IF ~coerce_ok(schema, values)
    THEN [ok |-> FALSE, err |-> "CoercionError", rows |-> rows, n |-> 0]
  ELSE
    LET d == dict2row(schema, values) IN
    [ok |-> TRUE, err |-> "none",
     rows |-> [i \in 1..Len(rows) |->
                 IF Matches(w.clauses, rows[i])
                   THEN [c \in ColNames(schema) |->
                           IF c \in DOMAIN d THEN d[c] ELSE rows[i][c]]
                   ELSE rows[i]],
     n |-> Cardinality({ i \in 1..Len(rows) : Matches(w.clauses, rows[i]) })]

\* ------------------------------------------------------------ aggregate
\* The value of the aggregate a (count or max of an expression) on rows.
AggValue(a, rows) ==
  LET inner == [a EXCEPT !.apps = SubSeq(a.apps, 1, Len(a.apps) - 1)]
      xs == { i \in 1..Len(rows) : Eval(inner, rows[i]) # NULL }
  IN IF Lower(a.apps[Len(a.apps)]) = fCount THEN Cardinality(xs)
     ELSE IF xs = {} THEN NULL
     ELSE LET m == CHOOSE i \in xs :
                     \A j \in xs : Eval(inner, rows[j]) <= Eval(inner, rows[i])
          IN Eval(inner, rows[m])

\* The query of Database.aggregate, g and a being the group expression and
\* the aggregate as str2col returned them and f the filtered rows: one row per
\* value of the group expression, in the order the values first occur.
aggregate_query(g, a, f, groupby, agg) ==
     IF ~g.ok \/ ~a.ok THEN [ok |-> FALSE, err |-> "KeyError"]
     ELSE IF ~f.ok THEN f
     ELSE
       LET first == { i \in 1..Len(f.rows) :
                        \A j \in 1..(i - 1) : Eval(g, f.rows[j]) # Eval(g, f.rows[i]) }
           group(i) == SelectSeq(f.rows, LAMBDA r : Eval(g, r) = Eval(g, f.rows[i]))
           nth(p) == CHOOSE i \in first : Cardinality({ j \in first : j < i }) = p - 1
       IN [ok |-> TRUE,
           rows |-> slice([p \in 1..Cardinality(first) |->
                             [k \in {agg, groupby} |->
                                IF k = agg THEN AggValue(a, group(nth(p)))
                                ELSE Eval(g, f.rows[nth(p)])]],
                          0, DefaultPageSize)]

\* Database.aggregate with one group expression and one aggregate, no order
\* and the default page.
aggregate(rows, schema, groupby, filters, agg) ==
  aggregate_query(str2col(groupby, schema), str2col(agg, schema),
                  with_filters(rows, schema, filters), groupby, agg)

\* No result yet.
None == [none |-> TRUE]

\* ================================================================ state
VARIABLES
  schema,   \* the table's columns, in schema order
  table,    \* the committed rows of the table, in storage order
  q,        \* SpecQuery: the last select call, its compiled filter and result
  pc,       \* Spec: where each client is in its call
  call,     \* Spec: the operation each client called, with its arguments
  sess,     \* Spec: the sessions each client holds open
  count_n,  \* Spec: the n of delete/update, the result of count
  exc,      \* Spec: the exception that is propagating, or "none"
  txn,      \* Spec: the rows a client's uncommitted statement leaves
  lock,     \* Spec: the client whose uncommitted statement holds the write lock
  ret,      \* Spec: what the call returned
  opened,   \* Spec (history): the sessions the call has opened
  dirty,    \* Spec (history): another client committed a change after the count
  actual,   \* Spec (history): the rows the call's statement deleted or updated
  added,    \* Spec (history): the growth of the table in the call's own steps
  field,    \* SpecResolve: the field expression under construction
  efuncs,   \* SpecResolve: the function names it was built from, outermost first
  eterm,    \* SpecResolve: the terminal it was built from
  column    \* SpecResolve: the last result of str2col, or None

cvars == <<pc, call, sess, count_n, exc, txn, lock, ret, opened, dirty, actual, added>>

vars == <<schema, table, q, field, efuncs, eterm, column, cvars>>

\* ------------------------------------------------------------- clients
Procs == {"p1", "p2"}

NoCall == [op |-> "none", found |-> TRUE, columns |-> <<>>, filters |-> <<>>,
           rows |-> <<>>, values |-> <<>>]

NoTxn == [active |-> FALSE, rows |-> <<>>]

NoRet == [status |-> "none", n_rows |-> 0, rows |-> <<>>, err |-> "none"]

InitClients ==
  /\ pc = [p \in Procs |-> "idle"]
  /\ call = [p \in Procs |-> NoCall]
  /\ sess = [p \in Procs |-> 0]
  /\ count_n = [p \in Procs |-> 0]
  /\ exc = [p \in Procs |-> "none"]
  /\ txn = [p \in Procs |-> NoTxn]
  /\ lock = "none"
  /\ ret = [p \in Procs |-> NoRet]
  /\ opened = [p \in Procs |-> 0]
  /\ dirty = [p \in Procs |-> FALSE]
  /\ actual = [p \in Procs |-> 0]
  /\ added = [p \in Procs |-> 0]

\* ------------------------------------------------------ SpecResolve
FuncNames == {fDate, fCount, fLower}

\* The terminals: every column, the wildcard, a column in the wrong case, an
\* unknown name and a column with a blank before it.
Terminals(sc) ==
  { <<n>> : n \in ColNames(sc) } \cup { <<"*">>, <<"X">>, <<"q">> }
    \cup { <<" ", n>> : n \in ColNames(sc) }

Pads == { <<>>, <<" ">> }

InitResolve ==
  /\ schema \in Schemas
  /\ table = <<>>
  /\ q = None
  /\ InitClients
  /\ eterm \in Terminals(schema)
  /\ field = eterm
  /\ efuncs = <<>>
  /\ column = None

\* Write f( ... ) around the expression, with or without blanks around it.
Wrap ==
  /\ Len(efuncs) < MaxDepth
  /\ \E f \in FuncNames, l \in Pads, r \in Pads :
       /\ field' = l \o f \o <<"(">> \o field \o <<")">> \o r
       /\ efuncs' = <<f>> \o efuncs
  /\ column' = None
  /\ UNCHANGED <<schema, table, q, eterm, cvars>>

Resolve ==
  /\ column = None
  /\ column' = str2col(field, schema)
  /\ UNCHANGED <<schema, table, q, field, efuncs, eterm, cvars>>

NextResolve == Wrap \/ Resolve

SpecResolve == InitResolve /\ [][NextResolve]_vars

\* -------------------------------------------------------- SpecQuery
Values == 0..MaxVal
Stored == {NULL} \cup Values

\* Every row a table of this schema can hold, each once, as the table.
AllRows(sc) ==
  LET n == Cardinality(Stored)
      val(k) == IF k = 0 THEN NULL ELSE k - 1
  IN [i \in 1..(n * n) |->
        [c \in ColNames(sc) |->
           IF c = sc[1].name THEN val((i - 1) \div n) ELSE val((i - 1) % n)]]

Call(f, inner) == f \o <<"(">> \o inner \o <<")">>

\* The field expressions used as filter keys.
FilterKeys(sc) ==
  UNION { { <<n>>, Call(fDate, <<n>>), Call(fLower, <<n>>), Call(fCount, <<n>>),
            Call(fMax, <<n>>) } : n \in ColNames(sc) }
    \cup { Call(fDATE, <<sc[1].name>>),
           Call(fLower, Call(fDate, <<sc[1].name>>)),
           Call(fDate, Call(fLower, <<sc[1].name>>)),
           Call(fMax, Call(fDate, <<sc[1].name>>)),
           <<"q">>, Call(fCount, <<"*">>) }

Lists == UNION { [1..n -> Values] : n \in 0..MaxList }

FilterValues == { Scalar(v) : v \in Values } \cup { List(l) : l \in Lists }

OneKey(k, v) == [x \in {k} |-> v]

InitQuery ==
  /\ schema \in Schemas
  /\ table = AllRows(schema)
  /\ q = None
  /\ field = <<>>
  /\ efuncs = <<>>
  /\ eterm = <<>>
  /\ column = None
  /\ InitClients

Select(columns, filters, page, page_size, orderby) ==
  /\ q' = [columns |-> columns, filters |-> filters, page |-> page,
           page_size |-> page_size, orderby |-> orderby,
           where |-> where_clause(filters, schema),
           res |-> select(table, schema, columns, filters, page, page_size, orderby)]
  /\ UNCHANGED <<schema, table, field, efuncs, eterm, column, cvars>>

\* select(table, filters={k: v})
FilterSelect ==
  /\ q = None
  /\ \E k \in FilterKeys(schema), v \in FilterValues :
       Select(<<>>, OneKey(k, v), 0, DefaultPageSize, <<>>)

\* select(table, filters={k: [lo, hi], k2: 1}), or with a list of one value
FilterSelect2 ==
  /\ q = None
  /\ \E k \in { <<schema[1].name>>, Call(fDate, <<schema[1].name>>),
                 Call(fLower, <<schema[1].name>>) },
        lo \in Values, hi \in Values, one \in BOOLEAN :
       Select(<<>>,
              OneKey(k, IF one THEN List(<<lo>>) ELSE List(<<lo, hi>>))
                @@ OneKey(<<schema[2].name>>, Scalar(hi)),
              0, DefaultPageSize, <<>>)

\* select(table, columns, filters, page, page_size, orderby)
PagedSelect ==
  /\ q = None
  /\ LET c1 == <<schema[1].name>>
         c2 == <<schema[2].name>>
     IN
     \E columns \in { <<>>, <<Call(fLower, c2), c1>> },
        filters \in { <<>>, OneKey(c1, List(<<0, MaxVal>>)) },
        page \in 0..MaxPage,
        page_size \in 0..MaxPageSize,
        orderby \in { <<>>, <<c2>>, <<c2, "DESCENDING">>, <<c1, "descending">>,
                      <<Call(fDate, c1), "ascending">> } :
       Select(columns, filters, page, page_size, orderby)

NextQuery == FilterSelect \/ FilterSelect2 \/ PagedSelect

SpecQuery == InitQuery /\ [][NextQuery]_vars

\* ------------------------------------------------------------- Spec
\* One table, t(a string, b date), both columns nullable, and two clients of
\* one Database object: p1 calls every table operation, p2 is a writer.
TableSchema == << Col("a", "string"), Col("b", "date") >>

\* The filters of the calls: on the date column (every row the clients
\* insert), on the string column (the rows that have one), on no column.
Fb == OneKey(<<"b">>, Scalar(1))
Fa == OneKey(<<"a">>, List(<<1, 2, 0>>))
Fq == OneKey(<<"q">>, Scalar(1))

\* The rows of the calls: both columns, the date alone, a key that is no
\* column, a date that does not parse.
Rab   == [k \in {"a", "b"} |-> IF k = "a" THEN Num(1) ELSE Text(2)]
Rb    == [k \in {"b"} |-> Text(3)]
Ra    == [k \in {"a"} |-> Num(1)]
Rq    == [k \in {"q"} |-> Num(1)]
Rjunk == [k \in {"a", "b"} |-> IF k = "a" THEN Num(1) ELSE Junk]

Op(o) == [NoCall EXCEPT !.op = o]

Calls ==
  { [Op("insert") EXCEPT !.rows = r] :
      r \in { <<Rab>>, <<Rb>>, <<Rb, Rab>>, <<Rab, Rq>>, <<Rb, Rjunk>> } }
  \cup { [Op(o) EXCEPT !.filters = f] :
           o \in {"delete", "count", "select"}, f \in {Fb, Fa, Fq} }
  \cup { [Op("update") EXCEPT !.filters = Fb, !.values = v] : v \in {Ra, Rq, Rjunk} }
  \cup { [Op("update") EXCEPT !.filters = Fq, !.values = Ra] }
  \cup { [Op("aggregate") EXCEPT !.filters = f] : f \in {Fb, Fq} }
  \cup { [Op("select") EXCEPT !.columns = << <<"q">> >>],
         [Op("delete") EXCEPT !.found = FALSE] }

\* The calls of the writer.
WriterCalls ==
  { [Op("insert") EXCEPT !.rows = <<Rab>>],
    [Op("insert") EXCEPT !.rows = <<Rb>>],
    [Op("delete") EXCEPT !.filters = Fb],
    [Op("update") EXCEPT !.filters = Fb, !.values = Ra] }

CallsOf(p) == IF p = "p1" THEN Calls ELSE WriterCalls

\* The group expression and the aggregate of the aggregate calls
\* (aggregate='count(*)').
GroupBy == <<"b">>
CountStar == Call(fCount, <<"*">>)

Mutating == {"insert", "delete", "update"}

\* A faulty variant: select counts its rows through Database.count as well.
first_step_counting(op) ==
  IF op \in {"delete", "update", "select"} THEN "count_start"
  ELSE IF op = "insert" THEN "exec"
  ELSE IF op = "count" THEN "count_query"
  ELSE "query"

\* The first statement of the try block of each operation.
first_step(op) ==
  IF op \in {"delete", "update"} THEN "count_start"
  ELSE IF op = "insert" THEN "exec"
  ELSE IF op = "count" THEN "count_query"
  ELSE "query"

\* A faulty variant: an exception leaves the operation without closing the session.
on_exception_leak(op) == "leave"

\* Where an exception raised in the try block goes: the finally clause.
on_exception(op) == "close"

Set(f, p, v) == [f EXCEPT ![p] = v]

\* A client calls an operation.
CallOp(p) ==
  /\ pc[p] = "idle"
  /\ \E c \in CallsOf(p) :
       /\ c.op = "insert" => Len(table) + Len(c.rows) <= MaxRows
       /\ call' = Set(call, p, c)
  /\ pc' = Set(pc, p, "start")
  /\ UNCHANGED <<schema, table, q, field, efuncs, eterm, column,
                 sess, count_n, exc, txn, lock, ret, opened, dirty, actual, added>>

\* table_ = self._table(table), the column lookup of select, and
\* session = self.sessionmaker().  What fails here fails before the try block.
Start(p) ==
  /\ pc[p] = "start"
  /\ IF ~call[p].found
       THEN /\ exc' = Set(exc, p, "NoSuchTableError")
            /\ pc' = Set(pc, p, "leave")
            /\ UNCHANGED <<sess, opened>>
     ELSE IF call[p].op = "select"
             /\ \E j \in 1..Len(call[p].columns) :
                  ~str2col(call[p].columns[j], schema).ok
       THEN /\ exc' = Set(exc, p, "KeyError")
            /\ pc' = Set(pc, p, "leave")
            /\ UNCHANGED <<sess, opened>>
     ELSE /\ sess' = Set(sess, p, sess[p] + 1)
          /\ opened' = Set(opened, p, opened[p] + 1)
          /\ pc' = Set(pc, p, first_step(call[p].op))
          /\ UNCHANGED exc
  /\ UNCHANGED <<schema, table, q, field, efuncs, eterm, column,
                 call, count_n, txn, lock, ret, dirty, actual, added>>

\* n = self.count(table, filters), entered: count opens a session of its own.
CountStart(p) ==
  /\ pc[p] = "count_start"
  /\ sess' = Set(sess, p, sess[p] + 1)
  /\ opened' = Set(opened, p, opened[p] + 1)
  /\ pc' = Set(pc, p, "count_query")
  /\ UNCHANGED <<schema, table, q, field, efuncs, eterm, column,
                 call, count_n, exc, txn, lock, ret, dirty, actual, added>>

\* The try block of Database.count; the engine may fail the query.
CountQuery(p) ==
  /\ pc[p] = "count_query"
  /\ LET r == count_query(table, schema, call[p].filters) IN
     \E fail \in BOOLEAN :
       IF ~r.ok
         THEN /\ exc' = Set(exc, p, r.err) /\ UNCHANGED count_n
       ELSE IF fail
         THEN /\ exc' = Set(exc, p, "EngineError") /\ UNCHANGED count_n
         ELSE /\ count_n' = Set(count_n, p, r.n) /\ UNCHANGED exc
  /\ pc' = Set(pc, p, "count_close")
  /\ dirty' = Set(dirty, p, FALSE)
  /\ UNCHANGED <<schema, table, q, field, efuncs, eterm, column,
                 call, sess, txn, lock, ret, opened, actual, added>>

\* The finally clause of Database.count, and its return or its exception:
\* into delete/update, or to the caller of count.
CountClose(p) ==
  /\ pc[p] = "count_close"
  /\ sess' = Set(sess, p, sess[p] - 1)
  /\ IF call[p].op = "count"
       THEN /\ pc' = Set(pc, p, "done")
            /\ ret' = Set(ret, p,
                 IF exc[p] = "none"
                   THEN [NoRet EXCEPT !.status = "value", !.n_rows = count_n[p]]
                   ELSE [NoRet EXCEPT !.status = "error", !.err = exc[p]])
       ELSE /\ pc' = Set(pc, p, IF exc[p] = "none" THEN "exec"
                                ELSE on_exception(call[p].op))
            /\ UNCHANGED ret
  /\ UNCHANGED <<schema, table, q, field, efuncs, eterm, column,
                 call, count_n, exc, txn, lock, opened, dirty, actual, added>>

\* The statement of a mutating operation: the coercion of its rows or values,
\* the where clause, and session.execute, which takes the write lock and
\* leaves its rows uncommitted; the engine may reject the statement.
Statement(p) ==
  LET c == call[p] IN
  IF c.op = "insert"
    THEN LET r == insert_rows(schema, c.rows) IN
         [ok |-> r.ok, err |-> r.err, rows |-> table \o r.rows, n |-> Len(r.rows)]
  ELSE IF c.op = "delete" THEN delete_rows(table, schema, c.filters)
  ELSE update_rows(table, schema, c.filters, c.values)

Exec(p) ==
  /\ pc[p] = "exec"
  /\ LET r == Statement(p) IN
     IF ~r.ok
       THEN /\ exc' = Set(exc, p, r.err)
            /\ pc' = Set(pc, p, on_exception(call[p].op))
            /\ UNCHANGED <<txn, lock, actual>>
       ELSE /\ lock = "none"
            /\ \E fail \in BOOLEAN :
                 IF fail
                   THEN /\ exc' = Set(exc, p, "EngineError")
                        /\ pc' = Set(pc, p, on_exception(call[p].op))
                        /\ UNCHANGED <<txn, lock, actual>>
                   ELSE /\ txn' = Set(txn, p, [active |-> TRUE, rows |-> r.rows])
                        /\ lock' = p
                        /\ actual' = Set(actual, p, r.n)
                        /\ pc' = Set(pc, p, "commit")
                        /\ UNCHANGED exc
  /\ UNCHANGED <<schema, table, q, field, efuncs, eterm, column,
                 call, sess, count_n, ret, opened, dirty>>
  /\ added' = Set(added, p, added[p] + Len(table') - Len(table))

\* session.commit(): the statement's rows become the table, or the engine
\* fails the commit.
Commit(p) ==
  /\ pc[p] = "commit"
  /\ \E fail \in BOOLEAN :
       IF fail
         THEN /\ exc' = Set(exc, p, "EngineError")
              /\ pc' = Set(pc, p, on_exception(call[p].op))
              /\ UNCHANGED <<table, txn, lock, dirty>>
         ELSE /\ table' = txn[p].rows
              /\ txn' = Set(txn, p, NoTxn)
              /\ lock' = "none"
              /\ dirty' = [o \in Procs |->
                             IF o # p /\ pc[o] \in {"count_close", "exec"}
                                /\ txn[p].rows # table
                               THEN TRUE ELSE dirty[o]]
              /\ pc' = Set(pc, p, "close")
              /\ UNCHANGED exc
  /\ added' = Set(added, p, added[p] + Len(table') - Len(table))
  /\ UNCHANGED <<schema, q, field, efuncs, eterm, column,
                 call, sess, count_n, ret, opened, actual>>

\* The try block of select and of aggregate; the engine may fail the query.
Query(p) ==
  /\ pc[p] = "query"
  /\ LET c == call[p]
         r == IF c.op = "select"
                THEN select(table, schema, c.columns, c.filters, 0,
                            DefaultPageSize, <<>>)
                ELSE aggregate(table, schema, GroupBy, c.filters, CountStar)
     IN \E fail \in BOOLEAN :
          IF ~r.ok
            THEN /\ exc' = Set(exc, p, r.err)
                 /\ pc' = Set(pc, p, on_exception(c.op))
                 /\ UNCHANGED ret
          ELSE IF fail
            THEN /\ exc' = Set(exc, p, "EngineError")
                 /\ pc' = Set(pc, p, on_exception(c.op))
                 /\ UNCHANGED ret
            ELSE /\ ret' = Set(ret, p, [NoRet EXCEPT !.status = "value",
                                                     !.rows = r.rows])
                 /\ pc' = Set(pc, p, "close")
                 /\ UNCHANGED exc
  /\ UNCHANGED <<schema, table, q, field, efuncs, eterm, column,
                 call, sess, count_n, txn, lock, opened, dirty, actual, added>>

\* finally: session.close(), which rolls an uncommitted statement back; then
\* the return of {'status': 'success', 'n_rows': ...}, of the rows, or the
\* exception.
Close(p) ==
  /\ pc[p] = "close"
  /\ sess' = Set(sess, p, sess[p] - 1)
  /\ txn' = Set(txn, p, NoTxn)
  /\ lock' = IF lock = p THEN "none" ELSE lock
  /\ ret' = Set(ret, p,
       IF exc[p] # "none" THEN [NoRet EXCEPT !.status = "error", !.err = exc[p]]
       ELSE IF call[p].op \in Mutating
         THEN [NoRet EXCEPT !.status = "success",
                            !.n_rows = IF call[p].op = "insert"
                                         THEN Len(call[p].rows) ELSE count_n[p]]
       ELSE ret[p])
  /\ pc' = Set(pc, p, "done")
  /\ UNCHANGED <<schema, table, q, field, efuncs, eterm, column,
                 call, count_n, exc, opened, dirty, actual, added>>

\* An exception leaves the operation with no finally clause in its way.
Leave(p) ==
  /\ pc[p] = "leave"
  /\ ret' = Set(ret, p, [NoRet EXCEPT !.status = "error", !.err = exc[p]])
  /\ pc' = Set(pc, p, "done")
  /\ UNCHANGED <<schema, table, q, field, efuncs, eterm, column,
                 call, sess, count_n, exc, txn, lock, opened, dirty, actual, added>>

\* The caller has the result; the client is free for its next call.
Return(p) ==
  /\ pc[p] = "done"
  /\ pc' = Set(pc, p, "idle")
  /\ call' = Set(call, p, NoCall)
  /\ count_n' = Set(count_n, p, 0)
  /\ exc' = Set(exc, p, "none")
  /\ ret' = Set(ret, p, NoRet)
  /\ opened' = Set(opened, p, 0)
  /\ dirty' = Set(dirty, p, FALSE)
  /\ actual' = Set(actual, p, 0)
  /\ added' = Set(added, p, 0)
  /\ UNCHANGED <<schema, table, q, field, efuncs, eterm, column, sess, txn, lock>>

Init ==
  /\ schema = TableSchema
  /\ table = <<>>
  /\ q = None
  /\ field = <<>>
  /\ efuncs = <<>>
  /\ eterm = <<>>
  /\ column = None
  /\ InitClients

Next ==
  \E p \in Procs :
    \/ CallOp(p)
    \/ Start(p)
    \/ CountStart(p)
    \/ CountQuery(p)
    \/ CountClose(p)
    \/ Exec(p)
    \/ Commit(p)
    \/ Query(p)
    \/ Close(p)
    \/ Leave(p)
    \/ Return(p)

Spec == Init /\ [][Next]_vars

\* ---------------------------------------------------------------- C6
\* C6: when an operation has returned or raised (and between calls), the
\* client holds no open session, whatever the exit path was.
C6_SessionsReleased ==
  \A p \in Procs : pc[p] \in {"idle", "done"} => sess[p] = 0

\* A delete has raised the engine's error after its count and its own
\* statement, having opened two sessions.
C6_Witness ==
  \E p \in Procs :
    /\ pc[p] = "done"
    /\ call[p].op = "delete"
    /\ ret[p].status = "error" /\ ret[p].err = "EngineError"
    /\ opened[p] = 2
    /\ sess[p] = 0

\* ---------------------------------------------------------------- C7
\* C7: delete and update return as n_rows the count taken before the
\* statement; when no other writer commits between the count and the
\* statement, n_rows is the number of rows the statement deleted or updated.
C7_CountIsAffected ==
  \A p \in Procs :
    (/\ pc[p] = "done"
     /\ call[p].op \in {"delete", "update"}
     /\ ret[p].status = "success"
     /\ ~dirty[p])
    => ret[p].n_rows = actual[p]

\* The race of C7: a writer committed between the count and the statement
\* and the call returned success with another n_rows than it affected.
C7_RaceReached ==
  \E p \in Procs :
    /\ pc[p] = "done"
    /\ call[p].op \in {"delete", "update"}
    /\ ret[p].status = "success"
    /\ dirty[p]
    /\ ret[p].n_rows # actual[p]

\* ---------------------------------------------------------------- C8
\* A batch with a row that fails coercion: a key that is no column of t, or a
\* value of the date column that is no date.
BadBatch(rows) ==
  \E i \in 1..Len(rows) :
    \E k \in DOMAIN rows[i] :
      k \notin {"a", "b"} \/ (k = "b" /\ rows[i][k].kind # "text")

\* C8: insert is all-or-nothing.  A batch with a bad row raises; a call that
\* raises has stored no row, at no step; a call that succeeds has stored every
\* row of the batch, the dates as calendar days, and returns the length of
\* the batch as n_rows.
C8_InsertAllOrNothing ==
  \A p \in Procs :
    call[p].op = "insert" =>
      /\ added[p] \in {0, Len(call[p].rows)}
      /\ added[p] # 0 => (exc[p] = "none" /\ pc[p] \in {"close", "done"})
      /\ txn[p].active =>
           /\ Len(txn[p].rows) = Len(table) + Len(call[p].rows)
           /\ \A i \in 1..Len(call[p].rows) :
                txn[p].rows[Len(table) + i]["b"] =
                  IF "b" \in DOMAIN call[p].rows[i]
                    THEN call[p].rows[i]["b"].v \div 2 ELSE NULL
      /\ pc[p] = "done" =>
           /\ BadBatch(call[p].rows) => ret[p].status = "error"
           /\ ret[p].status = "error" => added[p] = 0
           /\ ret[p].status = "success" =>
                (ret[p].n_rows = Len(call[p].rows) /\ added[p] = Len(call[p].rows))

\* An insert of a good row followed by a row with an unknown key has raised
\* and stored nothing.
C8_Witness ==
  \E p \in Procs :
    /\ pc[p] = "done"
    /\ call[p].op = "insert"
    /\ Len(call[p].rows) = 2
    /\ ~BadBatch(<<call[p].rows[1]>>)
    /\ BadBatch(<<call[p].rows[2]>>)
    /\ ret[p].status = "error"
    /\ added[p] = 0

\* --------------------------------------------------------------- C10
\* C10 as stated: no call ever holds more than one session open.
C10_OneSessionPerCall ==
  \A p \in Procs : sess[p] <= 1 /\ opened[p] <= 1

\* C10, amended: select, aggregate, insert and count open one session per
\* call and hold at most one; delete and update open two, their own and the
\* one of the count they call, and hold both while that count runs; every
\* session a call opened is released when it returns.
C10_SessionsPerCall ==
  \A p \in Procs :
    /\ call[p].op \in {"select", "aggregate", "insert", "count"} =>
         (sess[p] <= 1 /\ opened[p] <= 1)
    /\ call[p].op \in {"delete", "update"} =>
         /\ sess[p] <= 2 /\ opened[p] <= 2
         /\ sess[p] = 2 <=> pc[p] \in {"count_query", "count_close"}
    /\ (pc[p] = "done" /\ opened[p] > 0) =>
         /\ opened[p] = IF call[p].op \in {"delete", "update"} THEN 2 ELSE 1
         /\ sess[p] = 0

\* A delete is inside the count it calls, with two sessions open.
C10_Witness ==
  \E p \in Procs :
    /\ call[p].op = "delete"
    /\ pc[p] = "count_query"
    /\ sess[p] = 2

\* ------------------------------------------------------ C1, C2, C3
c_of(k) == str2col(k, schema)

\* The last call was a plain filtering select whose result is every matching
\* row of the table.
Filtered ==
  /\ q # None
  /\ q.columns = <<>> /\ q.orderby = <<>>
  /\ q.page = 0 /\ q.page_size >= Len(table)
  /\ q.res.ok

Selected(row) == \E i \in 1..Len(q.res.rows) : q.res.rows[i] = row

\* Continuity as the specification words it: a bare column by its declared
\* type, an expression with functions by the allow-list alone.
SpecContinuous(c) ==
  IF c.apps = <<>> THEN c.col.type \in ContinuousTypes
  ELSE Lower(c.apps[Len(c.apps)]) \in {fDate}

\* The filter entry of key k read as the specification reads it.
EntryHolds(k, row) ==
  LET c == str2col(k, schema)
      v == q.filters[k]
      x == Eval(c, row)
  IN IF ~v.list THEN x = v.vs[1]
     ELSE IF Len(v.vs) = 2 /\ SpecContinuous(c) THEN v.vs[1] <= x /\ x < v.vs[2]
     ELSE \E i \in 1..Len(v.vs) : x = v.vs[i]

\* C1: an entry [lo, hi] over a continuous expression selects exactly the rows
\* with lo <= expr < hi (together with the other entries of the filter): the
\* row at lo is selected, the row at hi is not.
C1_RangeHalfOpen ==
  Filtered =>
    \A k \in DOMAIN q.filters :
      LET c == str2col(k, schema)
          v == q.filters[k]
      IN (v.list /\ Len(v.vs) = 2 /\ SpecContinuous(c)) =>
           \A i \in 1..Len(table) :
             Selected(table[i]) <=>
               /\ v.vs[1] <= Eval(c, table[i])
               /\ Eval(c, table[i]) < v.vs[2]
               /\ \A k2 \in DOMAIN q.filters \ {k} : EntryHolds(k2, table[i])

\* A range over date(column) has run: a row at the lower bound is in the result
\* and a row at the upper bound is in the table and not in it.
C1_Witness ==
  /\ Filtered
  /\ \E k \in DOMAIN q.filters :
       LET c == str2col(k, schema)
           v == q.filters[k]
       IN /\ v.list /\ Len(v.vs) = 2 /\ v.vs[1] < v.vs[2]
          /\ c.apps # <<>> /\ SpecContinuous(c)
          /\ \E i \in 1..Len(q.res.rows) : Eval(c, q.res.rows[i]) = v.vs[1]
          /\ \E i \in 1..Len(table) :
               Eval(c, table[i]) = v.vs[2] /\ ~Selected(table[i])

\* C2: a list entry of length other than 2, or over a non-continuous
\* expression, selects exactly the rows whose expression equals one of the
\* listed values; an empty list selects no row.
C2_Membership ==
  Filtered =>
    \A k \in DOMAIN q.filters :
      LET c == str2col(k, schema)
          v == q.filters[k]
      IN (v.list /\ (Len(v.vs) # 2 \/ ~SpecContinuous(c))) =>
           \A i \in 1..Len(table) :
             Selected(table[i]) <=>
               /\ \E j \in 1..Len(v.vs) : Eval(c, table[i]) = v.vs[j]
               /\ \A k2 \in DOMAIN q.filters \ {k} : EntryHolds(k2, table[i])

\* The part of C2 that is about a list with at least one value.
C2_MembershipOfListed ==
  Filtered =>
    \A k \in DOMAIN q.filters :
      LET c == str2col(k, schema)
          v == q.filters[k]
      IN (v.list /\ Len(v.vs) # 0 /\ (Len(v.vs) # 2 \/ ~SpecContinuous(c))) =>
           \A i \in 1..Len(table) :
             Selected(table[i]) <=>
               /\ \E j \in 1..Len(v.vs) : Eval(c, table[i]) = v.vs[j]
               /\ \A k2 \in DOMAIN q.filters \ {k} : EntryHolds(k2, table[i])

\* Whether the entry of key k was compiled to a range / to a membership test.
IsRange(k) ==
  LET c == str2col(k, schema)
      v == q.filters[k].vs
  IN /\ [kind |-> "ge", expr |-> c, vals |-> <<v[1]>>] \in q.where.clauses
     /\ [kind |-> "lt", expr |-> c, vals |-> <<v[2]>>] \in q.where.clauses

IsMembership(k) ==
  [kind |-> "or", expr |-> c_of(k), vals |-> q.filters[k].vs] \in q.where.clauses

TwoList(k) == q.filters[k].list /\ Len(q.filters[k].vs) = 2

\* C3 as stated: with a function applied, the allow-list alone decides, so
\* count(x), max(x) and lower(x) over any column compile to a membership
\* test; a bare column is continuous exactly by its declared type.
C3_AllowListAlone ==
  (q # None /\ q.where.ok) =>
    \A k \in DOMAIN q.filters :
      TwoList(k) =>
        IF SpecContinuous(c_of(k)) THEN IsRange(k) ELSE IsMembership(k)

\* Continuity with the result type of the call taken into account: count is
\* an integer, max has the type of its argument, any other call has no type
\* and is continuous only by the allow-list.
TypedContinuous(c) ==
  IF c.apps = <<>> THEN c.col.type \in ContinuousTypes
  ELSE
    LET outer == Lower(c.apps[Len(c.apps)])
        inner == SubSeq(c.apps, 1, Len(c.apps) - 1)
    IN \/ outer = fDate
       \/ outer = fCount
       \/ outer = fMax /\ TypeOf(inner, c.col.type) \in ContinuousTypes

\* C3, amended: an expression with a function applied is continuous when its
\* outermost function is in the allow-list {date} or when the type of the
\* call's result is continuous (count; max of a continuous argument); every
\* other call (lower(x)) is non-continuous whatever the column, and a list of
\* two values on it compiles to a membership test; a bare column is continuous
\* exactly when its declared type is date, datetime, time, small-integer,
\* integer, big-integer or float.
C3_TypeThenAllowList ==
  (q # None /\ q.where.ok) =>
    \A k \in DOMAIN q.filters :
      TwoList(k) =>
        IF TypedContinuous(c_of(k)) THEN IsRange(k) ELSE IsMembership(k)

\* A list of two values on count(<a string column>) was compiled to a range,
\* and the behaviour's table has a bare non-continuous column.
C3_Witness ==
  /\ q # None /\ q.where.ok
  /\ \E k \in DOMAIN q.filters :
       /\ TwoList(k) /\ IsRange(k)
       /\ c_of(k).apps = <<fCount>>
       /\ c_of(k).col.type \notin ContinuousTypes

\* ---------------------------------------------------------------- C5
Max(a, b) == IF a > b THEN a ELSE b

\* The filtered and ordered rows the last call paginates, as it returns them.
Base ==
  Project(with_orderby(with_filters(table, schema, q.filters), schema, q.orderby),
          schema, q.columns).rows

\* Pages p, p + 1, ..., last of rows, one after the other.
RECURSIVE ConcatPages(_, _, _, _)
ConcatPages(rows, size, p, last) ==
  IF p > last THEN <<>>
  ELSE with_pagination([ok |-> TRUE, rows |-> rows], p, size).rows
         \o ConcatPages(rows, size, p + 1, last)

\* The page holds exactly the rows at the zero-based places
\* [page * page_size, page * page_size + page_size) of the base.
PageIsSlice(base) ==
  /\ Len(q.res.rows) =
       Max(0, Min(q.page_size, Len(base) - q.page * q.page_size))
  /\ \A i \in 1..Len(q.res.rows) :
       q.res.rows[i] = base[q.page * q.page_size + i]

\* The pages 0, 1, 2, ... of the base, one after the other, are the base.
PagesCover(base) == ConcatPages(base, q.page_size, 0, Len(base)) = base

\* The page is the slice of the base, and for a page_size of at least least
\* the pages cover the base.
PagesHold(base, least) ==
  /\ PageIsSlice(base)
  /\ q.page_size >= least => PagesCover(base)

\* C5 as stated: for page >= 0 and page_size >= 0 the page is that slice, and
\* the pages 0, 1, 2, ... one after the other are the whole filtered result.
C5_PagesCoverResult ==
  (q # None /\ q.res.ok) =>
    PagesHold(Base, 0)

\* C5, amended: for page >= 0 and page_size >= 0 the page is exactly the rows
\* at places [page * page_size, page * page_size + page_size) of the filtered,
\* ordered result; for page_size >= 1 the pages 0, 1, 2, ... one after the
\* other are the whole filtered result (with page_size = 0 every page is
\* empty).
C5_PagesCoverResultFromOne ==
  (q # None /\ q.res.ok) =>
    /\ PagesHold(Base, 1)
    /\ q.page_size = 0 => q.res.rows = <<>>

\* An ordered, filtered select returned a last, partly filled page.
C5_Witness ==
  /\ q # None /\ q.res.ok
  /\ q.orderby # <<>> /\ DOMAIN q.filters # {}
  /\ q.page = 2 /\ q.page_size = 3
  /\ Len(q.res.rows) = 2
  /\ Len(Base) = 8

\* ---------------------------------------------------------------- C4
\* C4: for a field f1(f2(...fn(col)...)), str2col peels the names in the order
\* f1..fn, looks the terminal up exactly as written (case-sensitive, untrimmed)
\* and applies fn first and f1 last; a terminal that is neither a column nor
\* '*' yields the lookup error and no expression.
C4_Str2colStructure ==
  column # None =>
    /\ Peel(field, <<>>).queue = efuncs
    /\ Peel(field, <<>>).field = eterm
    /\ (Len(eterm) = 1 /\ eterm[1] \in ColNames(schema)) =>
          /\ column.ok
          /\ column.col = ColOf(schema, eterm[1])
          /\ Len(column.apps) = Len(efuncs)
          /\ \A i \in 1..Len(efuncs) :
                column.apps[i] = efuncs[Len(efuncs) + 1 - i]
    /\ (eterm # <<"*">> /\ ~(Len(eterm) = 1 /\ eterm[1] \in ColNames(schema))) =>
          ~column.ok

\* A two-level expression with different functions has been resolved.
C4_Witness ==
  /\ column # None
  /\ column.ok
  /\ efuncs = <<fCount, fDate>>
  /\ Len(field) > Len(fCount) + Len(fDate) + Len(eterm) + 4
  /\ eterm[1] \in ColNames(schema)

\* ---------------------------------------------------------------- C9
\* C9: '*' resolved through str2col, alone or under functions, is the first
\* column of the table in schema order, the column count() uses.
C9_StarIsFirstColumn ==
  (column # None /\ eterm = <<"*">>) =>
    (column.ok /\ column.col = schema[1])

====
